---- MODULE Spec2Model ----
(***************************************************************************)
(* Model of on-page-seo-score.py: one analysis request of main(), from the *)
(* press of the "Extract SEO Data" button to the last rendered element.    *)
(*                                                                         *)
(* Strings are sequences of pieces.  A piece is either the whitespace      *)
(* piece " " or a non-empty chunk of non-whitespace-delimited text that    *)
(* the model never splits; two piece sequences denote the same Python      *)
(* string exactly when they are equal.                                     *)
(***************************************************************************)
EXTENDS Integers, Sequences, FiniteSets, TLC

VARIABLES url, pc, caught, html, soup, fields, indexability, seo_data, todo_list, out, raised

vars == <<url, pc, caught, html, soup, fields, indexability, seo_data, todo_list, out, raised>>

\* ------------------------------------------------------------------ bounds
MaxImgs == 2
MaxHreflangs == 1

\* ------------------------------------------------------- program constants
MinWordCount == 300
FullScore == 100
TitlePenalty == 10
MetaDescPenalty == 10
H1Penalty == 10
WordCountPenalty == 15
MissingAltPenalty == 10
CanonicalPenalty == 10
RobotsMetaPenalty == 5
XRobotsPenalty == 5
HreflangPenalty == 5

TitleNotFound == <<"Title not found">>
MetaDescNotFound == <<"Meta description not found">>
H1NotFound == <<"H1 not found">>
Missing == <<"Missing">>

\* ----------------------------------------------------------------- strings
WS == " "

RECURSIVE lstrip(_)
lstrip(s) == IF s # <<>> /\ Head(s) = WS THEN lstrip(Tail(s)) ELSE s

RECURSIVE rstrip(_)
rstrip(s) == IF s # <<>> /\ s[Len(s)] = WS THEN rstrip(SubSeq(s, 1, Len(s) - 1)) ELSE s

\* str.strip()
strip(s) == rstrip(lstrip(s))

\* ---------------------------------------------------------------- elements
\* An element looked up in the parsed document: whether it is there, whether
\* it carries the attribute (or single text node) the code reads, and the
\* value of that attribute or text.
Absent == [present |-> FALSE, has |-> FALSE, val |-> <<>>]
Bare == [present |-> TRUE, has |-> FALSE, val |-> <<>>]
With(v) == [present |-> TRUE, has |-> TRUE, val |-> v]

\* tag.get(attr) is truthy
Truthy(tag) == tag.present /\ tag.has /\ tag.val # <<>>

\* ------------------------------------------------------------------- input
GoodUrls == { <<"http", "://", "a.com", "/p">>, <<"https", "://", "b.org">> }
Urls == GoodUrls \cup { <<>>, <<"a.com", "/p">> }

TitleTags == { Absent, Bare, With(<<WS, "a">>), With(<<WS, "Title not found", WS>>) }
MetaDescTags == { Absent, Bare, With(<<"a", WS>>) }
OgDescTags == { Absent, With(<<WS, "b">>) }
H1Tags == { Absent, With(<<"a">>) }
WordCounts == { MinWordCount - 1, MinWordCount }
AltAttrs == { Absent, With(<<>>), With(<<"a">>) }
CanonicalTags == { Absent, Bare, With(<<"http", "://", "a.com", "/p", WS>>) }
RobotsTags == { Absent, Bare, With(<<"index">>) }
XRobotsTags == { Absent, With(<<"noindex">>) }
SitemapTags == { Absent, With(<<>>), With(<<"/s.xml">>) }

ImgLists == UNION { [1..n -> AltAttrs] : n \in 0..MaxImgs }

Pages == [ title : TitleTags, meta_desc : MetaDescTags, og_desc : OgDescTags, h1 : H1Tags,
           words : WordCounts, imgs : ImgLists, canonical : CanonicalTags,
           robots : RobotsTags, x_robots : XRobotsTags, sitemap : SitemapTags,
           hreflangs : 0..MaxHreflangs ]

\* The document of a response whose body is the empty string, and of a body
\* without any of the elements the program looks up.
BlankPage == [ title |-> Absent, meta_desc |-> Absent, og_desc |-> Absent, h1 |-> Absent,
               words |-> 0, imgs |-> <<>>, canonical |-> Absent, robots |-> Absent,
               x_robots |-> Absent, sitemap |-> Absent, hreflangs |-> 0 ]

\* requests.exceptions.RequestException subclasses raised by get / raise_for_status
FetchErrors == { "ConnectionError", "Timeout", "HTTPError" }

\* What requests.get(url) can do: raise, or answer 2xx with a body.
Responses(u) ==
  IF u \in GoodUrls
    THEN [ ok : {FALSE}, err : FetchErrors, empty : {FALSE}, doc : {BlankPage} ]
         \cup [ ok : {TRUE}, err : {"none"}, empty : {TRUE}, doc : {BlankPage} ]
         \cup [ ok : {TRUE}, err : {"none"}, empty : {FALSE}, doc : Pages ]
    ELSE [ ok : {FALSE}, err : {"MissingSchema"}, empty : {FALSE}, doc : {BlankPage} ]

\* ---------------------------------------------------------------- urlparse
PathPieces == { "/p", "/" }

RECURSIVE netlocOf(_)
netlocOf(s) == IF s = <<>> \/ Head(s) \in PathPieces THEN <<>> ELSE <<Head(s)>> \o netlocOf(Tail(s))

urlparse(u) ==
  IF Len(u) >= 2 /\ u[2] = "://"
    THEN [ scheme |-> <<u[1]>>, netloc |-> netlocOf(SubSeq(u, 3, Len(u))) ]
    ELSE [ scheme |-> <<>>, netloc |-> <<>> ]

\* ------------------------------------------------ extract_indexability_data
NoIndexability == [ set |-> FALSE, canonical_url |-> <<>>, self_canonical |-> FALSE,
                    robots_txt |-> <<>>, robots_meta |-> <<>>, x_robots |-> <<>>,
                    sitemap |-> <<>>, hreflangs |-> [ missing |-> TRUE, n |-> 0 ] ]

\* The result of extract_indexability_data: the exception it raises ("none"
\* when it returns) and the record it returns.  parsed_url is assigned only
\* on the branch that derives the sitemap URL from the analysed URL, and is
\* read unconditionally for the robots.txt URL.
extract_indexability_data(u, doc) ==
  LET canonical_url == IF doc.canonical.present THEN strip(doc.canonical.val) ELSE Missing
      robots_meta_content == IF doc.robots.present THEN doc.robots.val ELSE Missing
      x_robots_content == IF doc.x_robots.present THEN doc.x_robots.val ELSE Missing
      parsed_url_bound == ~Truthy(doc.sitemap)
      parsed_url == urlparse(u)
      sitemap_url == IF Truthy(doc.sitemap)
                       THEN doc.sitemap.val
                       ELSE parsed_url.scheme \o <<"://">> \o parsed_url.netloc \o <<"/sitemap.xml">>
      robots_txt_url == parsed_url.scheme \o <<"://">> \o parsed_url.netloc \o <<"/robots.txt">>
      hreflangs == IF doc.hreflangs > 0 THEN [ missing |-> FALSE, n |-> doc.hreflangs ]
                                        ELSE [ missing |-> TRUE, n |-> 0 ]
      exc == IF doc.canonical.present /\ ~doc.canonical.has THEN "KeyError"
             ELSE IF doc.robots.present /\ ~doc.robots.has THEN "KeyError"
             ELSE IF doc.x_robots.present /\ ~doc.x_robots.has THEN "KeyError"
             ELSE IF ~parsed_url_bound THEN "UnboundLocalError"
             ELSE "none"
  IN [ exc |-> exc,
       val |-> IF exc # "none" THEN NoIndexability
               ELSE [ set |-> TRUE, canonical_url |-> canonical_url,
                      self_canonical |-> (canonical_url = u),
                      robots_txt |-> robots_txt_url, robots_meta |-> robots_meta_content,
                      x_robots |-> x_robots_content, sitemap |-> sitemap_url,
                      hreflangs |-> hreflangs ] ]

\* ------------------------------------------------------ calculate_seo_score
Max(a, b) == IF a >= b THEN a ELSE b

\* calculate_seo_score with the word-count penalty added instead of subtracted
calculate_seo_score_sign(title, meta_desc, h1, word_count, missing_alt, ix) ==
  LET s1 == FullScore - (IF title = TitleNotFound THEN TitlePenalty ELSE 0)
      s2 == s1 - (IF meta_desc = MetaDescNotFound THEN MetaDescPenalty ELSE 0)
      s3 == s2 - (IF h1 = H1NotFound THEN H1Penalty ELSE 0)
      s4 == s3 + (IF word_count < MinWordCount THEN WordCountPenalty ELSE 0)
      s5 == s4 - (IF missing_alt > 0 THEN MissingAltPenalty ELSE 0)
      s6 == s5 - (IF ix.canonical_url = Missing THEN CanonicalPenalty ELSE 0)
      s7 == s6 - (IF ix.robots_meta = Missing THEN RobotsMetaPenalty ELSE 0)
      s8 == s7 - (IF ix.x_robots = Missing THEN XRobotsPenalty ELSE 0)
      s9 == s8 - (IF ix.hreflangs.missing THEN HreflangPenalty ELSE 0)
  IN Max(s9, 0)

\* calculate_seo_score with a length check on the title: a present title
\* of more than one piece costs the title penalty as well
calculate_seo_score_length(title, meta_desc, h1, word_count, missing_alt, ix) ==
  LET s1 == FullScore - (IF title = TitleNotFound \/ Len(title) > 1 THEN TitlePenalty ELSE 0)
      s2 == s1 - (IF meta_desc = MetaDescNotFound THEN MetaDescPenalty ELSE 0)
      s3 == s2 - (IF h1 = H1NotFound THEN H1Penalty ELSE 0)
      s4 == s3 - (IF word_count < MinWordCount THEN WordCountPenalty ELSE 0)
      s5 == s4 - (IF missing_alt > 0 THEN MissingAltPenalty ELSE 0)
      s6 == s5 - (IF ix.canonical_url = Missing THEN CanonicalPenalty ELSE 0)
      s7 == s6 - (IF ix.robots_meta = Missing THEN RobotsMetaPenalty ELSE 0)
      s8 == s7 - (IF ix.x_robots = Missing THEN XRobotsPenalty ELSE 0)
      s9 == s8 - (IF ix.hreflangs.missing THEN HreflangPenalty ELSE 0)
  IN Max(s9, 0)

calculate_seo_score(title, meta_desc, h1, word_count, missing_alt, ix) ==
  LET s1 == FullScore - (IF title = TitleNotFound THEN TitlePenalty ELSE 0)
      s2 == s1 - (IF meta_desc = MetaDescNotFound THEN MetaDescPenalty ELSE 0)
      s3 == s2 - (IF h1 = H1NotFound THEN H1Penalty ELSE 0)
      s4 == s3 - (IF word_count < MinWordCount THEN WordCountPenalty ELSE 0)
      s5 == s4 - (IF missing_alt > 0 THEN MissingAltPenalty ELSE 0)
      s6 == s5 - (IF ix.canonical_url = Missing THEN CanonicalPenalty ELSE 0)
      s7 == s6 - (IF ix.robots_meta = Missing THEN RobotsMetaPenalty ELSE 0)
      s8 == s7 - (IF ix.x_robots = Missing THEN XRobotsPenalty ELSE 0)
      s9 == s8 - (IF ix.hreflangs.missing THEN HreflangPenalty ELSE 0)
  IN Max(s9, 0)

\* ------------------------------------------------- extract_seo_data, fields
NoFields == [ set |-> FALSE, title |-> <<>>, meta_desc |-> <<>>, h1 |-> <<>>,
              word_count |-> 0, missing_alt |-> 0 ]

\* count_missing_alt counting only images without the alt attribute
RECURSIVE count_missing_alt_attr(_)
count_missing_alt_attr(imgs) ==
  IF imgs = <<>> THEN 0
  ELSE (IF ~Head(imgs).present THEN 1 ELSE 0) + count_missing_alt_attr(Tail(imgs))

RECURSIVE count_missing_alt(_)
count_missing_alt(imgs) ==
  IF imgs = <<>> THEN 0
  ELSE (IF ~Truthy(Head(imgs)) THEN 1 ELSE 0) + count_missing_alt(Tail(imgs))

\* The field lookups of extract_seo_data: the exception they raise ("none"
\* when they complete) and the values they produce.  soup.title.string is
\* None for a title element without a single text node, and None has no strip.
extract_fields(doc) ==
  LET exc == IF doc.title.present /\ ~doc.title.has THEN "AttributeError" ELSE "none"
  IN [ exc |-> exc,
       val |-> IF exc # "none" THEN NoFields
               ELSE [ set |-> TRUE,
                      title |-> IF doc.title.present THEN strip(doc.title.val) ELSE TitleNotFound,
                      meta_desc |-> IF Truthy(doc.meta_desc) THEN strip(doc.meta_desc.val)
                                    ELSE IF Truthy(doc.og_desc) THEN strip(doc.og_desc.val)
                                    ELSE MetaDescNotFound,
                      h1 |-> IF doc.h1.present THEN strip(doc.h1.val) ELSE H1NotFound,
                      word_count |-> doc.words,
                      missing_alt |-> count_missing_alt(doc.imgs) ] ]

NoSeoData == [ set |-> FALSE, title |-> <<>>, meta_description |-> <<>>, h1 |-> <<>>,
               word_count |-> 0, missing_alt |-> 0, indexability |-> NoIndexability,
               seo_score |-> 0 ]

\* ------------------------------------------------------- generate_todo_list
Item(issue, action, n) == [ issue |-> issue, action |-> action, n |-> n ]

\* generate_todo_list asking for more content up to and including 300 words
generate_todo_list_le(d) ==
  (IF d.title = TitleNotFound
     THEN << Item("Title Tag", "Add a proper title for SEO.", 0) >> ELSE <<>>)
  \o (IF d.meta_description = MetaDescNotFound
     THEN << Item("Meta Description", "Add a relevant meta description.", 0) >> ELSE <<>>)
  \o (IF d.h1 = H1NotFound
     THEN << Item("H1 Tag", "Ensure there is a primary H1 tag.", 0) >> ELSE <<>>)
  \o (IF d.word_count <= MinWordCount
     THEN << Item("Content Length", "Increase word count to at least 300+.", 0) >> ELSE <<>>)
  \o (IF d.missing_alt > 0
     THEN << Item("Image ALT Tags", "Add ALT text to {n} images.", d.missing_alt) >> ELSE <<>>)
  \o (IF d.indexability.canonical_url = Missing
     THEN << Item("Canonical URL", "Add a canonical URL to prevent duplicate content.", 0) >> ELSE <<>>)
  \o (IF d.indexability.robots_meta = Missing
     THEN << Item("Robots Meta Tag", "Add a robots meta tag for better control.", 0) >> ELSE <<>>)
  \o (IF d.indexability.x_robots = Missing
     THEN << Item("X-Robots-Tag", "Consider setting an X-Robots-Tag HTTP header.", 0) >> ELSE <<>>)
  \o (IF d.indexability.hreflangs.missing
     THEN << Item("Hreflang Tags", "Add hreflang tags for multilingual sites.", 0) >> ELSE <<>>)

generate_todo_list(d) ==
  (IF d.title = TitleNotFound
     THEN << Item("Title Tag", "Add a proper title for SEO.", 0) >> ELSE <<>>)
  \o (IF d.meta_description = MetaDescNotFound
     THEN << Item("Meta Description", "Add a relevant meta description.", 0) >> ELSE <<>>)
  \o (IF d.h1 = H1NotFound
     THEN << Item("H1 Tag", "Ensure there is a primary H1 tag.", 0) >> ELSE <<>>)
  \o (IF d.word_count < MinWordCount
     THEN << Item("Content Length", "Increase word count to at least 300+.", 0) >> ELSE <<>>)
  \o (IF d.missing_alt > 0
     THEN << Item("Image ALT Tags", "Add ALT text to {n} images.", d.missing_alt) >> ELSE <<>>)
  \o (IF d.indexability.canonical_url = Missing
     THEN << Item("Canonical URL", "Add a canonical URL to prevent duplicate content.", 0) >> ELSE <<>>)
  \o (IF d.indexability.robots_meta = Missing
     THEN << Item("Robots Meta Tag", "Add a robots meta tag for better control.", 0) >> ELSE <<>>)
  \o (IF d.indexability.x_robots = Missing
     THEN << Item("X-Robots-Tag", "Consider setting an X-Robots-Tag HTTP header.", 0) >> ELSE <<>>)
  \o (IF d.indexability.hreflangs.missing
     THEN << Item("Hreflang Tags", "Add hreflang tags for multilingual sites.", 0) >> ELSE <<>>)

\* -------------------------------------------------------------------- main
NoHtml == [ none |-> TRUE, empty |-> FALSE, doc |-> BlankPage ]
NoSoup == [ parsed |-> FALSE, doc |-> BlankPage ]

Init ==
  /\ url \in Urls
  /\ pc = "idle"
  /\ caught = "none"
  /\ html = NoHtml
  /\ soup = NoSoup
  /\ fields = NoFields
  /\ indexability = NoIndexability
  /\ seo_data = NoSeoData
  /\ todo_list = <<>>
  /\ out = <<>>
  /\ raised = "none"

\* if st.button("Extract SEO Data"): if url:
Press ==
  /\ pc = "idle"
  /\ pc' = IF url # <<>> THEN "fetch" ELSE "done"
  /\ UNCHANGED <<url, caught, html, soup, fields, indexability, seo_data, todo_list, out, raised>>

\* Fetch without the test of html: main goes on to parse after a failed fetch
Fetch_unguarded ==
  /\ pc = "fetch"
  /\ \E r \in Responses(url) :
       IF r.ok
         THEN /\ html' = [ none |-> FALSE, empty |-> r.empty, doc |-> r.doc ]
              /\ caught' = caught
              /\ out' = out
              /\ pc' = IF r.empty THEN "done" ELSE "parse"
         ELSE /\ html' = NoHtml
              /\ caught' = r.err
              /\ out' = Append(out, "error")
              /\ pc' = "parse"
  /\ UNCHANGED <<url, soup, fields, indexability, seo_data, todo_list, raised>>

\* html = fetch_html(url); if html:
\* fetch_html returns response.text, or catches the RequestException, shows
\* it with st.error and returns None; main goes on only with a truthy html.
Fetch ==
  /\ pc = "fetch"
  /\ \E r \in Responses(url) :
       IF r.ok
         THEN /\ html' = [ none |-> FALSE, empty |-> r.empty, doc |-> r.doc ]
              /\ caught' = caught
              /\ out' = out
              /\ pc' = IF r.empty THEN "done" ELSE "parse"
         ELSE /\ html' = NoHtml
              /\ caught' = r.err
              /\ out' = Append(out, "error")
              /\ pc' = "done"
  /\ UNCHANGED <<url, soup, fields, indexability, seo_data, todo_list, raised>>

\* soup = BeautifulSoup(html, 'html.parser')
Parse ==
  /\ pc = "parse"
  /\ soup' = [ parsed |-> TRUE, doc |-> html.doc ]
  /\ pc' = "fields"
  /\ UNCHANGED <<url, caught, html, fields, indexability, seo_data, todo_list, out, raised>>

\* title ... sorted_keywords; an exception leaves main uncaught
ExtractFields ==
  /\ pc = "fields"
  /\ LET r == extract_fields(soup.doc)
     IN /\ fields' = r.val
        /\ raised' = r.exc
        /\ pc' = IF r.exc = "none" THEN "indexability" ELSE "done"
  /\ UNCHANGED <<url, caught, html, soup, indexability, seo_data, todo_list, out>>

\* indexability_data = extract_indexability_data(url, soup)
ExtractIndexability ==
  /\ pc = "indexability"
  /\ LET r == extract_indexability_data(url, soup.doc)
     IN /\ indexability' = r.val
        /\ raised' = r.exc
        /\ pc' = IF r.exc = "none" THEN "score" ELSE "done"
  /\ UNCHANGED <<url, caught, html, soup, fields, seo_data, todo_list, out>>

\* seo_score = calculate_seo_score(...); return {...}
Score ==
  /\ pc = "score"
  /\ seo_data' = [ set |-> TRUE, title |-> fields.title, meta_description |-> fields.meta_desc,
                   h1 |-> fields.h1, word_count |-> fields.word_count,
                   missing_alt |-> fields.missing_alt, indexability |-> indexability,
                   seo_score |-> calculate_seo_score(fields.title, fields.meta_desc, fields.h1,
                                    fields.word_count, fields.missing_alt, indexability) ]
  /\ pc' = "render_score"
  /\ UNCHANGED <<url, caught, html, soup, fields, indexability, todo_list, out, raised>>

\* st.subheader("SEO Score:"); st.markdown(seo_score / 100)
RenderScore ==
  /\ pc = "render_score"
  /\ out' = Append(out, "score")
  /\ pc' = "render_details"
  /\ UNCHANGED <<url, caught, html, soup, fields, indexability, seo_data, todo_list, raised>>

\* the title ... indexability key/value lines
RenderDetails ==
  /\ pc = "render_details"
  /\ out' = out \o <<"fields", "headings", "keywords", "indexability">>
  /\ pc' = "render_todo"
  /\ UNCHANGED <<url, caught, html, soup, fields, indexability, seo_data, todo_list, raised>>

\* RenderTodo showing the table whether or not the to-do list is empty
RenderTodo_table ==
  /\ pc = "render_todo"
  /\ todo_list' = generate_todo_list(seo_data)
  /\ out' = Append(out, "table")
  /\ pc' = "done"
  /\ UNCHANGED <<url, caught, html, soup, fields, indexability, seo_data, raised>>

\* todo_list = generate_todo_list(seo_data); table or success message
RenderTodo ==
  /\ pc = "render_todo"
  /\ todo_list' = generate_todo_list(seo_data)
  /\ out' = Append(out, IF todo_list' # <<>> THEN "table" ELSE "success")
  /\ pc' = "done"
  /\ UNCHANGED <<url, caught, html, soup, fields, indexability, seo_data, raised>>

Next ==
  \/ Press
  \/ Fetch
  \/ Parse
  \/ ExtractFields
  \/ ExtractIndexability
  \/ Score
  \/ RenderScore
  \/ RenderDetails
  \/ RenderTodo

Spec == Init /\ [][Next]_vars

\* ------------------------------------- the scoring functions on their own
\* calculate_seo_score and generate_todo_list applied to argument values drawn
\* from bounded sets: the request is entered at the call of
\* calculate_seo_score and runs to the end of main.
CalcUrl == <<"http", "://", "a.com", "/p">>
CalcTitles == { TitleNotFound, <<"a">>, <<"a", WS, "a">> }
CalcMetaDescs == { MetaDescNotFound, <<"a">>, <<"a", WS, "b">> }
CalcH1s == { H1NotFound, <<"a">> }
CalcWordCounts == { 0, MinWordCount - 1, MinWordCount, MinWordCount + 1 }
CalcHreflangs == { [ missing |-> TRUE, n |-> 0 ] } \cup [ missing : {FALSE}, n : 1..MaxHreflangs ]

CalcFields == [ set : {TRUE}, title : CalcTitles, meta_desc : CalcMetaDescs, h1 : CalcH1s,
                word_count : CalcWordCounts, missing_alt : 0..MaxImgs ]

CalcIndexability ==
  { [ set |-> TRUE, canonical_url |-> c, self_canonical |-> (c = CalcUrl),
      robots_txt |-> <<"http", "://", "a.com", "/robots.txt">>, robots_meta |-> r,
      x_robots |-> x, sitemap |-> <<"http", "://", "a.com", "/sitemap.xml">>, hreflangs |-> h ] :
    c \in { Missing, CalcUrl }, r \in { Missing, <<"index">>, <<>> },
    x \in { Missing, <<"noindex">> }, h \in CalcHreflangs }

InitCalc ==
  /\ url = CalcUrl
  /\ pc = "score"
  /\ caught = "none"
  /\ html = NoHtml
  /\ soup = NoSoup
  /\ fields \in CalcFields
  /\ indexability \in CalcIndexability
  /\ seo_data = NoSeoData
  /\ todo_list = <<>>
  /\ out = <<>>
  /\ raised = "none"

NextCalc ==
  \/ Score
  \/ RenderScore
  \/ RenderDetails
  \/ RenderTodo

SpecCalc == InitCalc /\ [][NextCalc]_vars

\* ------------------------------------------------------------- properties
Rendered(x) == \E i \in 1..Len(out) : out[i] = x

\* The weight the score gives to the check behind a to-do issue.
Weight(issue) ==
  CASE issue = "Title Tag" -> 10
    [] issue = "Meta Description" -> 10
    [] issue = "H1 Tag" -> 10
    [] issue = "Content Length" -> 15
    [] issue = "Image ALT Tags" -> 10
    [] issue = "Canonical URL" -> 10
    [] issue = "Robots Meta Tag" -> 5
    [] issue = "X-Robots-Tag" -> 5
    [] issue = "Hreflang Tags" -> 5

RECURSIVE SumWeights(_)
SumWeights(l) == IF l = <<>> THEN 0 ELSE Weight(Head(l).issue) + SumWeights(Tail(l))

\* len(s) of a string of pieces
RECURSIVE StrLen(_)
StrLen(s) == IF s = <<>> THEN 0 ELSE Len(Head(s)) + StrLen(Tail(s))

\* scheme://host of an analysed URL
Origin(u) == SubSeq(u, 1, 3)

\* C1: every score calculate_seo_score returns, and so every score main
\* renders, is an integer between 0 and 100.
C1_ScoreInRange ==
  /\ seo_data.set => seo_data.seo_score \in 0..100
  /\ Rendered("score") => seo_data.set

C1_Witness == Rendered("score") /\ seo_data.seo_score = 20

\* The sum of the weights of the checks that fail on a page, the checks read
\* off the page: no title element, no description or og:description meta with
\* content, no h1, fewer than 300 words, an image without alt text, no
\* canonical link, no robots meta, no X-Robots-Tag meta, no hreflang alternate.
PageDeductions(doc) ==
  (IF ~doc.title.present THEN 10 ELSE 0)
  + (IF ~Truthy(doc.meta_desc) /\ ~Truthy(doc.og_desc) THEN 10 ELSE 0)
  + (IF ~doc.h1.present THEN 10 ELSE 0)
  + (IF doc.words < 300 THEN 15 ELSE 0)
  + (IF \E i \in 1..Len(doc.imgs) : ~Truthy(doc.imgs[i]) THEN 10 ELSE 0)
  + (IF ~doc.canonical.present THEN 10 ELSE 0)
  + (IF ~doc.robots.present THEN 5 ELSE 0)
  + (IF ~doc.x_robots.present THEN 5 ELSE 0)
  + (IF doc.hreflangs = 0 THEN 5 ELSE 0)

\* C2: the score of a page is 100 minus the weights of the checks that fail
\* on the page; a check that passes on the page never lowers the score.
C2_ScoreIsPageChecks == seo_data.set => seo_data.seo_score = 100 - PageDeductions(soup.doc)

\* C3: when the fetch fails with a network exception, an error is displayed,
\* fetch_html returns None, and main parses nothing, computes no score and
\* renders nothing else for the request.
C3_FetchFailureEndsRequest ==
  caught # "none" =>
    /\ html.none
    /\ out = <<"error">>
    /\ pc = "done"
    /\ ~soup.parsed /\ ~fields.set /\ ~indexability.set /\ ~seo_data.set
    /\ todo_list = <<>>

C3_Witness == caught = "HTTPError" /\ pc = "done" /\ out = <<"error">>

\* C4: within a request the steps occur in the order fetch, parse, extract,
\* score, render: nothing is parsed or extracted before the fetch returned
\* HTML, the score is computed after the fields and the indexability record,
\* no result is rendered before the score is computed, and the to-do table
\* (or, for an empty to-do list, the success message) is rendered last.
C4_StepOrder ==
  /\ soup.parsed => ~html.none /\ ~html.empty
  /\ fields.set => soup.parsed
  /\ indexability.set => soup.parsed
  /\ seo_data.set => fields.set /\ indexability.set
  /\ \A i \in 1..Len(out) : out[i] # "error" => seo_data.set
  /\ \A i \in 1..Len(out) : out[i] = "score" => i = 1
  /\ \A i \in 1..Len(out) :
       out[i] \in { "table", "success" } =>
         /\ i = Len(out) /\ i > 1 /\ pc = "done"
         /\ (out[i] = "table") = (generate_todo_list(seo_data) # <<>>)
         /\ todo_list = generate_todo_list(seo_data)
  /\ (pc = "done" /\ seo_data.set) => out[Len(out)] \in { "table", "success" }

C4_Witness == pc = "done" /\ Len(out) = 6 /\ out[1] = "score" /\ out[6] = "table"

\* C5 (as stated): the score's checks include the length of the title and
\* the length of the meta description: among present titles (and among
\* present meta descriptions) some two of different length score differently.
C5_LengthIsChecked ==
  seo_data.set =>
    /\ \E t1 \in CalcTitles \ {TitleNotFound}, t2 \in CalcTitles \ {TitleNotFound} :
         /\ StrLen(t1) # StrLen(t2)
         /\ calculate_seo_score(t1, seo_data.meta_description, seo_data.h1, seo_data.word_count,
                                seo_data.missing_alt, seo_data.indexability)
            # calculate_seo_score(t2, seo_data.meta_description, seo_data.h1, seo_data.word_count,
                                  seo_data.missing_alt, seo_data.indexability)
    /\ \E m1 \in CalcMetaDescs \ {MetaDescNotFound}, m2 \in CalcMetaDescs \ {MetaDescNotFound} :
         /\ StrLen(m1) # StrLen(m2)
         /\ calculate_seo_score(seo_data.title, m1, seo_data.h1, seo_data.word_count,
                                seo_data.missing_alt, seo_data.indexability)
            # calculate_seo_score(seo_data.title, m2, seo_data.h1, seo_data.word_count,
                                  seo_data.missing_alt, seo_data.indexability)

\* C5 (amended): the score depends on the title and on the meta description
\* only through whether each is the not-found placeholder (10 points each),
\* whatever their length: replacing them by any other title and meta
\* description changes the score by exactly those 10 points.
C5_ScoreIgnoresLength ==
  seo_data.set =>
    \A t \in CalcTitles, m \in CalcMetaDescs :
      calculate_seo_score(t, m, seo_data.h1, seo_data.word_count, seo_data.missing_alt,
                          seo_data.indexability)
      = seo_data.seo_score
        + (IF seo_data.title = TitleNotFound THEN 10 ELSE 0) - (IF t = TitleNotFound THEN 10 ELSE 0)
        + (IF seo_data.meta_description = MetaDescNotFound THEN 10 ELSE 0)
        - (IF m = MetaDescNotFound THEN 10 ELSE 0)

C5_Witness ==
  /\ seo_data.set /\ Rendered("score")
  /\ StrLen(seo_data.title) = 3 /\ StrLen(seo_data.meta_description) = 1

\* The images of the page that have no alt attribute.
ImgsWithoutAltAttr(doc) == { i \in 1..Len(doc.imgs) : ~doc.imgs[i].present }

\* The images of the page whose alt attribute is absent or the empty string.
ImgsWithoutAltText(doc) ==
  { i \in 1..Len(doc.imgs) : ~doc.imgs[i].present \/ doc.imgs[i].val = <<>> }

HasAltItem(l) == \E i \in 1..Len(l) : l[i].issue = "Image ALT Tags"

\* C6 (as stated): the missing-alt count is the number of img elements that
\* have no alt attribute.
C6_CountsAbsentAttribute ==
  fields.set => fields.missing_alt = Cardinality(ImgsWithoutAltAttr(soup.doc))

\* C6 (amended): the missing-alt count is the number of img elements whose
\* alt attribute is absent or empty; when every image carries a non-empty alt
\* the to-do list has no alt entry and the score no alt deduction.
C6_CountsAbsentOrEmpty ==
  /\ fields.set => fields.missing_alt = Cardinality(ImgsWithoutAltText(soup.doc))
  /\ (pc = "done" /\ seo_data.set /\ ImgsWithoutAltText(soup.doc) = {}) =>
       /\ ~HasAltItem(todo_list)
       /\ seo_data.seo_score = 100 - SumWeights(todo_list)

C6_Witness ==
  /\ pc = "done" /\ seo_data.set
  /\ Len(soup.doc.imgs) = 2
  /\ soup.doc.imgs[1] = With(<<>>) /\ soup.doc.imgs[2] = With(<<"a">>)
  /\ fields.missing_alt = 1

\* C7: once extract_indexability_data has run (its attribute lookups having
\* succeeded) it has returned a record whose Sitemap is the href of the
\* page's sitemap link when that has a non-empty href and
\* scheme://host/sitemap.xml otherwise, and whose Robots.txt is
\* scheme://host/robots.txt.
C7_SitemapAndRobotsTxt ==
  (fields.set /\ pc # "indexability" /\ raised # "KeyError") =>
    /\ indexability.set
    /\ indexability.sitemap = IF Truthy(soup.doc.sitemap) THEN soup.doc.sitemap.val
                              ELSE Origin(url) \o <<"/sitemap.xml">>
    /\ indexability.robots_txt = Origin(url) \o <<"/robots.txt">>

\* C8: the score and the to-do list agree: the list is empty exactly when
\* the score is 100, no issue is listed twice, the score is 100 minus the
\* weights of the issues listed, and the success message is shown exactly
\* when the displayed score is 100.
C8_ScoreMatchesTodo ==
  (pc = "done" /\ seo_data.set) =>
    /\ (todo_list = <<>>) = (seo_data.seo_score = 100)
    /\ \A i \in 1..Len(todo_list), j \in 1..Len(todo_list) :
         todo_list[i].issue = todo_list[j].issue => i = j
    /\ seo_data.seo_score = 100 - SumWeights(todo_list)
    /\ Rendered("success") = (seo_data.seo_score = 100)
    /\ Rendered("table") = (seo_data.seo_score # 100)

C8_Witness == pc = "done" /\ Len(todo_list) = 9 /\ seo_data.seo_score = 20 /\ Rendered("table")

\* C9: for every successfully fetched, non-empty document extract_seo_data
\* raises nothing and returns its record.
C9_ExtractCompletes ==
  /\ raised = "none"
  /\ (pc = "done" /\ ~html.none /\ ~html.empty) => seo_data.set

\* C10: a request for a non-empty URL ends with exactly one of the error
\* message and the rendered score.
C10_OneOutcome ==
  (pc = "done" /\ url # <<>>) => (Rendered("error") # Rendered("score"))
====
